---- MODULE Spec2Model ----
(***************************************************************************)
(* tabularis-csv-plugin (src/plugin.py): a folder of .csv / .tsv files is  *)
(* loaded into an in-memory SQLite database and served over a              *)
(* line-delimited JSON-RPC loop.  The model keeps the module's three       *)
(* globals (_conn, _loaded_folder, _column_types), the directory contents  *)
(* the loader reads, and the last request line and its response line.      *)
(* stdin / stdout / running are the lines main has still to read, the      *)
(* lines it has printed and whether the process is still in its loop;      *)
(* input / output hold the argument and the return value of a function     *)
(* of the module that is evaluated on its own (for main: all the lines its *)
(* standard input holds when it starts).                                   *)
(***************************************************************************)
EXTENDS Integers, Sequences, FiniteSets, TLC

VARIABLES disk, conn, loaded_folder, column_types, request, response,
          stdin, stdout, running, input, output

vars == <<disk, conn, loaded_folder, column_types, request, response,
          stdin, stdout, running, input, output>>

\* ---------------------------------------------------------------- strings
\* Python str values are TLA+ strings; characters are one-character strings.

\* The characters the model's strings are written in, in code-point order.
Ascii == " '+-./0123456789ABCDEFGHIJKLMNOPQRSTUVWXYZ_abcdefghijklmnopqrstuvwxyz"

UpperAlpha == "ABCDEFGHIJKLMNOPQRSTUVWXYZ"

LowerAlpha == "abcdefghijklmnopqrstuvwxyz"

Digits == "0123456789"

Char(s, i) == SubSeq(s, i, i)

InStr(c, s) == \E i \in 1..Len(s) : Char(s, i) = c

\* str.find / str.rfind of one character out of cs, 0 when absent.
FirstIndex(s, cs) ==
    IF \E i \in 1..Len(s) : Char(s, i) \in cs
    THEN CHOOSE i \in 1..Len(s) :
            Char(s, i) \in cs /\ \A j \in 1..(i - 1) : Char(s, j) \notin cs
    ELSE 0

LastIndex(s, cs) ==
    IF \E i \in 1..Len(s) : Char(s, i) \in cs
    THEN CHOOSE i \in 1..Len(s) :
            Char(s, i) \in cs /\ \A j \in (i + 1)..Len(s) : Char(s, j) \notin cs
    ELSE 0

\* the rank of each character
OrdOf == [c \in {Char(Ascii, i) : i \in 1..Len(Ascii)} |->
            CHOOSE i \in 1..Len(Ascii) : Char(Ascii, i) = c]

Ord(c) == OrdOf[c]

\* str < str: code-point lexicographic order, a proper prefix first.
RECURSIVE StrLessFrom(_, _, _)
StrLessFrom(a, b, i) ==
    IF i > Len(b) THEN FALSE
    ELSE IF i > Len(a) THEN TRUE
    ELSE IF Char(a, i) = Char(b, i) THEN StrLessFrom(a, b, i + 1)
    ELSE Ord(Char(a, i)) < Ord(Char(b, i))

StrLess(a, b) == StrLessFrom(a, b, 1)

\* the lower-case letter at the position of an upper-case one (0: not upper)
LowerAt(c, i) == IF i = 0 THEN c ELSE Char(LowerAlpha, i)

\* str.lower() of each character
LowerOf == [c \in {Char(Ascii, i) : i \in 1..Len(Ascii)} |->
              LowerAt(c, FirstIndex(UpperAlpha, {c}))]

LowerChar(c) == LowerOf[c]

\* str.lower()
RECURSIVE Lower(_)
Lower(s) == IF Len(s) = 0 THEN "" ELSE LowerChar(Char(s, 1)) \o Lower(Tail(s))

IsSpace(c) == c = " "

RECURSIVE LStrip(_)
LStrip(s) == IF Len(s) > 0 /\ IsSpace(Char(s, 1)) THEN LStrip(Tail(s)) ELSE s

RECURSIVE RStrip(_)
RStrip(s) ==
    IF Len(s) > 0 /\ IsSpace(Char(s, Len(s)))
    THEN RStrip(SubSeq(s, 1, Len(s) - 1))
    ELSE s

\* str.strip()
Strip(s) == RStrip(LStrip(s))

\* repr() of a str of the model's characters: in double quotes when it
\* holds a single quote, in single quotes otherwise
Repr(s) == IF InStr("'", s) THEN "\"" \o s \o "\"" ELSE "'" \o s \o "'"

\* str() of a non-negative int
RECURSIVE IntStr(_)
IntStr(n) == IF n < 10 THEN Char(Digits, n + 1) ELSE IntStr(n \div 10) \o Char(Digits, (n % 10) + 1)

\* ----------------------------------------------------- numeric literals
IsDigit(c) == InStr(c, Digits)

\* digits with single underscores between digits (Python's digit part)
DigitPart(b) ==
    /\ Len(b) > 0
    /\ IsDigit(Char(b, 1))
    /\ IsDigit(Char(b, Len(b)))
    /\ \A i \in 1..Len(b) :
          \/ IsDigit(Char(b, i))
          \/ Char(b, i) = "_" /\ i > 1 /\ IsDigit(Char(b, i - 1))

Unsigned(s) == IF Len(s) > 0 /\ Char(s, 1) \in {"+", "-"} THEN Tail(s) ELSE s

\* sys.get_int_max_str_digits(): the longest digit string int() converts
int_max_str_digits == 4300

DigitCount(b) == Cardinality({i \in 1..Len(b) : IsDigit(Char(b, i))})

\* int(s) does not raise ValueError (s already stripped)
IsIntLiteral(s) == DigitPart(Unsigned(s)) /\ DigitCount(s) <= int_max_str_digits

\* the digits of a float around its decimal point, at position dot (0: none)
MantissaAt(m, dot) ==
    IF dot = 0 THEN DigitPart(m)
    ELSE /\ dot = 1 \/ DigitPart(SubSeq(m, 1, dot - 1))
         /\ dot = Len(m) \/ DigitPart(SubSeq(m, dot + 1, Len(m)))
         /\ Len(m) > 1

Mantissa(m) == MantissaAt(m, FirstIndex(m, {"."}))

\* an unsigned float whose exponent mark is at position e (0: none)
FloatAt(b, e) ==
    IF e = 0 THEN Mantissa(b)
    ELSE /\ Mantissa(SubSeq(b, 1, e - 1))
         /\ DigitPart(Unsigned(SubSeq(b, e + 1, Len(b))))

UnsignedFloat(b) ==
    \/ Len(b) <= 8 /\ Lower(b) \in {"inf", "infinity", "nan"}
    \/ FloatAt(b, FirstIndex(b, {"e", "E"}))

\* float(s) does not raise ValueError (s already stripped)
IsFloatLiteral(s) == UnsignedFloat(Unsigned(s))

\* ------------------------------------------------------- type inference
_INFER_SAMPLE == 500

NonBlank(v) == Strip(v) # ""

\* the two try blocks of _infer_type over the non-blank values, stripped
InferStripped(vs) ==
    IF Len(vs) = 0 THEN "TEXT"
    ELSE IF \A i \in 1..Len(vs) : IsIntLiteral(vs[i]) THEN "INTEGER"
    ELSE IF \A i \in 1..Len(vs) : IsFloatLiteral(vs[i]) THEN "REAL"
    ELSE "TEXT"

StripAll(row) == [i \in 1..Len(row) |-> Strip(row[i])]

_infer_type(values) == InferStripped(StripAll(SelectSeq(values, NonBlank)))

\* ------------------------------------------------------------ file system
\* pathlib.Path(s): the root ("", "/" or, for exactly two leading slashes,
\* "//") and the parts, without empty and "." components.
KeptPart(c) == IF c \in {"", "."} THEN <<>> ELSE <<c>>

RECURSIVE PartsFrom(_, _, _)
PartsFrom(s, i, cur) ==
    IF i > Len(s) THEN KeptPart(cur)
    ELSE IF Char(s, i) = "/" THEN KeptPart(cur) \o PartsFrom(s, i + 1, "")
    ELSE PartsFrom(s, i + 1, cur \o Char(s, i))

PathParts(s) == PartsFrom(s, 1, "")

RECURSIVE JoinParts(_)
JoinParts(parts) ==
    IF Len(parts) = 0 THEN ""
    ELSE IF Len(parts) = 1 THEN parts[1]
    ELSE parts[1] \o "/" \o JoinParts(Tail(parts))

\* str(Path(folder) / name) for a one-component name
ChildPath(folder, name) ==
    (IF Len(folder) = 0 \/ Char(folder, 1) # "/" THEN ""
     ELSE IF /\ Len(folder) >= 2
             /\ Char(folder, 2) = "/"
             /\ (Len(folder) = 2 \/ Char(folder, 3) # "/") THEN "//"
     ELSE "/")
    \o JoinParts(PathParts(folder) \o <<name>>)

\* A directory entry: its name, whether open() succeeds on it ("file") or
\* raises OSError ("dir": a sub-directory, the hard filesystem error), and
\* the records csv.reader yields from it under the resolved delimiter.
File(name, records) == [name |-> name, kind |-> "file", records |-> records]

SubDir(name) == [name |-> name, kind |-> "dir", records |-> <<>>]

\* name[i:] and name[:i] around the last dot, at position i (0: none)
SuffixAt(name, i) == IF i > 1 /\ i < Len(name) THEN SubSeq(name, i, Len(name)) ELSE ""

StemAt(name, i) == IF i > 1 /\ i < Len(name) THEN SubSeq(name, 1, i - 1) ELSE name

\* Path.suffix and Path.stem of a file name
Suffix(name) == SuffixAt(name, LastIndex(name, {"."}))

Stem(name) == StemAt(name, LastIndex(name, {"."}))

Recognized(name) == Lower(Suffix(name)) \in {".csv", ".tsv"}

\* the elements that rank numbers 1, 2, ... in the order of their numbers
ByRank(rank) ==
    <<>> \o [i \in 1..Cardinality(DOMAIN rank) |->
                CHOOSE t \in DOMAIN rank : rank[t] = i]

\* sorted(...) of a set of entries with pairwise distinct names
SortedByName(S) ==
    ByRank([e \in S |-> Cardinality({o \in S : ~StrLess(e.name, o.name)})] @@ <<>>)

\* sorted strings (ORDER BY name, BINARY collation)
SortedStrings(S) ==
    ByRank([e \in S |-> Cardinality({o \in S : ~StrLess(e, o)})] @@ <<>>)

\* The state of a path: whether it is a directory, and the entries it holds.
NotADirectory == [exists |-> FALSE, entries |-> {}]

Directory(entries) == [exists |-> TRUE, entries |-> entries]

\* ---------------------------------------------------------------- store
\* The SQLite database: table name -> [cols, rows, rootpage].  Table and
\* column names match case-insensitively, as SQLite identifiers do.
None == "None"

EmptyStore == [t \in {} |-> 0]

NoError == ""

\* the tables of the store that the identifier names (at most one)
Named(store, table) == {t \in DOMAIN store : Lower(t) = Lower(table)}

HasTable(store, table) == Named(store, table) # {}

TableKey(store, table) == CHOOSE t \in Named(store, table) : TRUE

LowerAll(headers) == [i \in 1..Len(headers) |-> Lower(headers[i])]

\* the positions whose name repeats an earlier one, names lower-cased
Repeats(low) == {j \in 1..Len(low) : \E i \in 1..(j - 1) : low[i] = low[j]}

Min(S) == CHOOSE m \in S : \A n \in S : m <= n

\* a name the engine keeps for itself
ReservedName(table) == Lower(SubSeq(table, 1, Min({7, Len(table)}))) = "sqlite_"

\* cols_ddl = ", ".join(f'"{h}" TEXT' for h in headers), here for the
\* headers a..b
RECURSIVE DdlOf(_, _, _)
DdlOf(headers, a, b) ==
    IF a > b THEN ""
    ELSE IF a = b THEN "\"" \o headers[a] \o "\" TEXT"
    ELSE DdlOf(headers, a, (a + b) \div 2) \o ", "
            \o DdlOf(headers, (a + b) \div 2 + 1, b)

cols_ddl(headers) == DdlOf(headers, 1, Len(headers))

\* the statement the engine keeps for a table: the CREATE TABLE of the
\* loader without its IF NOT EXISTS
CreateSql(table, headers) ==
    "CREATE TABLE \"" \o table \o "\" (" \o cols_ddl(headers) \o ")"

\* ------------------------------------------------------- database pages
\* sqlite3.connect(":memory:") gives a database of pages of PageSize bytes,
\* numbered from 1.  Page 1 is the root of the schema table; CREATE TABLE
\* takes the page after the last one as the root of the new table, and the
\* INSERTs that follow take pages for the leaves, the interior pages and the
\* overflow chains of its b-tree.  The root page of a table is what
\* sqlite_master shows in its rootpage column, so it is computed here as the
\* engine allocates it: rows are only ever appended, in rowid order, to the
\* last table created.  A text takes one byte per character, as all the
\* characters of Ascii do.  A tree is as deep as its cells make it.
PageSize == 4096

\* bytes of the variable-length integer n
VarintLen(n) ==
    IF n < 128 THEN 1 ELSE IF n < 16384 THEN 2 ELSE IF n < 2097152 THEN 3
    ELSE IF n < 268435456 THEN 4 ELSE 5

\* f[a] + ... + f[b]
RECURSIVE Sum(_, _, _)
Sum(f, a, b) ==
    IF a > b THEN 0
    ELSE IF a = b THEN f[a]
    ELSE Sum(f, a, (a + b) \div 2) + Sum(f, (a + b) \div 2 + 1, b)

\* the header of a record whose serial types take n bytes: the header's
\* own length comes first, as a varint that counts itself
RecordHeader(n) ==
    IF n <= 126 THEN n + 1
    ELSE n + VarintLen(n) + (IF VarintLen(n) < VarintLen(n + VarintLen(n)) THEN 1 ELSE 0)

\* the record of a row of texts: a serial type and the bytes of each value
TextPayload(row) ==
    RecordHeader(Sum([i \in 1..Len(row) |-> VarintLen(13 + 2 * Len(row[i]))],
                     1, Len(row)))
        + Sum([i \in 1..Len(row) |-> Len(row[i])], 1, Len(row))

\* bytes of the integer v > 0 in a record (1 is a serial type of its own)
IntBytes(v) ==
    IF v <= 1 THEN 0 ELSE IF v <= 127 THEN 1 ELSE IF v <= 32767 THEN 2
    ELSE IF v <= 8388607 THEN 3 ELSE 4

\* the record of a row of sqlite_master: 'table', name, tbl_name, rootpage
\* and sql, the two names of namelen bytes and the sql of sqllen bytes
SchemaPayload(namelen, rootpage, sqllen) ==
    RecordHeader(2 + 2 * VarintLen(13 + 2 * namelen) + VarintLen(13 + 2 * sqllen))
        + 5 + 2 * namelen + IntBytes(rootpage) + sqllen

\* A payload of up to MaxLocal bytes lies in its cell; of a longer one the
\* cell keeps between MinLocal and MaxLocal bytes and the rest fills a
\* chain of overflow pages, each with a 4-byte link.
MaxLocal == PageSize - 35

MinLocal == ((PageSize - 12) * 32) \div 255 - 23

Surplus(payload) == MinLocal + ((payload - MinLocal) % (PageSize - 4))

LocalSize(payload) ==
    IF payload <= MaxLocal THEN payload
    ELSE IF Surplus(payload) <= MaxLocal THEN Surplus(payload)
    ELSE MinLocal

OverflowPages(payload) ==
    (payload - LocalSize(payload) + PageSize - 5) \div (PageSize - 4)

\* the cell of a table leaf: payload length, rowid, the local payload and
\* the number of the first overflow page when there is one
CellSize(payload, rowid) ==
    VarintLen(payload) + VarintLen(rowid) + LocalSize(payload)
        + (IF payload > MaxLocal THEN 4 ELSE 0)

\* the room for cells (each with a 2-byte pointer) in a leaf and in an
\* interior page
LeafRoom == PageSize - 8

InteriorRoom == PageSize - 12

\* A row appended after the last row of a table goes into the last leaf;
\* when it does not fit, the leaf stays as it is and the row starts a new
\* leaf.  s.ends holds the last rowid of every leaf but the last.
PutRow(s, cell, rowid) ==
    IF s.free >= cell + 2 THEN [s EXCEPT !.free = @ - (cell + 2)]
    ELSE [free |-> LeafRoom - (cell + 2), ends |-> Append(s.ends, rowid - 1)]

\* the leaves after the rows a..b are appended to the leaves s (the first
\* half of the rows, then the second half onto its result l)
RECURSIVE PackedRows(_, _, _, _)
PackedRows(rows, a, b, s) ==
    IF a > b THEN s
    ELSE IF a = b THEN PutRow(s, CellSize(TextPayload(rows[a]), a), a)
    ELSE CHOOSE r \in {PackedRows(rows, (a + b) \div 2 + 1, b, l) :
                           l \in {PackedRows(rows, a, (a + b) \div 2, s)}} : TRUE

LeafEnds(rows) ==
    PackedRows(rows, 1, Len(rows), [free |-> LeafRoom, ends |-> <<>>]).ends

\* the bytes the cells a..b take in a page
Weight(sz, a, b) == IF a > b THEN 0 ELSE Sum(sz, a, b) + 2 * (b - a + 1)

\* The pages under a root are told by their ends: with g = 0 (leaves) the
\* page after the end p and up to the end e holds the cells p+1..e; with
\* g = 1 (interior pages) it holds the cells p+1..e-1 and cell e is the
\* divider kept in the root.  When a page overflows, the engine spreads
\* the cells of the last pages (three at most) again: first every page
\* takes the cells that fit, from the left,
RECURSIVE LastFit(_, _, _, _, _)
LastFit(sz, s, lo, hi, room) ==
    IF lo >= hi THEN lo
    ELSE IF Weight(sz, s, (lo + hi + 1) \div 2) <= room
    THEN LastFit(sz, s, (lo + hi + 1) \div 2, hi, room)
    ELSE LastFit(sz, s, lo, (lo + hi + 1) \div 2 - 1, room)

RECURSIVE FilledFrom(_, _, _, _, _)
FilledTo(sz, n, g, room, c) ==
    IF c >= n THEN <<n + g>>
    ELSE <<c + g>> \o FilledFrom(sz, n, g, room, c + g + 1)

FilledFrom(sz, n, g, room, s) ==
    FilledTo(sz, n, g, room, LastFit(sz, s, s - 1, n, room))

\* then, from the right, cells move from each page to the page after it
\* as long as that page stays the smaller of the two.
Uneven(right, left, down, up, slack) ==
    right # 0 /\ right + down + 2 > left - (up + slack)

StopsAt(sz, g, p, e, q, slack) ==
    \/ e - g <= p
    \/ Uneven(Weight(sz, e + 1, q - g), Weight(sz, p + 1, e - g),
              sz[e], sz[e - g], slack)

RECURSIVE ShiftedEnd(_, _, _, _, _, _, _)
ShiftedEnd(sz, g, p, q, slack, lo, hi) ==
    IF lo >= hi THEN lo
    ELSE IF StopsAt(sz, g, p, (lo + hi + 1) \div 2, q, slack)
    THEN ShiftedEnd(sz, g, p, q, slack, (lo + hi + 1) \div 2, hi)
    ELSE ShiftedEnd(sz, g, p, q, slack, lo, (lo + hi + 1) \div 2 - 1)

Before(p, ends, i) == IF i = 0 THEN p ELSE ends[i]

RECURSIVE Evened(_, _, _, _, _)
Evened(sz, g, p, ends, i) ==
    IF i < 2 THEN ends
    ELSE Evened(sz, g, p,
                [ends EXCEPT ![i - 1] =
                    ShiftedEnd(sz, g, Before(p, ends, i - 2), ends[i],
                               IF i = Len(ends) THEN 0 ELSE 2,
                               Before(p, ends, i - 2) + g, @)],
                i - 1)

EvenedAll(sz, g, p, ends) == Evened(sz, g, p, ends, Len(ends))

\* the ends of the pages that hold the cells after the end p, up to cell n
Balanced(sz, n, g, room, p) ==
    EvenedAll(sz, g, p, FilledFrom(sz, n, g, room, p + 1))

\* A tree is told level by level: T[k] holds the ends of the pages of
\* level k, the lowest level first; the last level is the root, one page
\* with no end to tell.  The cells of the lowest level are given (n of
\* them, of the sizes sz, with g0 = 0 for leaves and g0 = 1 for interior
\* pages); the cells of a level above are the dividers between the pages
\* of the level under it, each the key of the last row under its page.
Room(k, g0) == IF k = 1 /\ g0 = 0 THEN LeafRoom ELSE InteriorRoom

\* page 1 starts with the 100 bytes of the file header
RootRoom(k, g0, first) == Room(k, g0) - (IF first THEN 100 ELSE 0)

Gap(k, g0) == IF k = 1 THEN g0 ELSE 1

CellsAt(T, n, k) == IF k = 1 THEN n ELSE Len(T[k - 1]) - 1

\* the cell of the lowest level that cell j of level k stands for
RECURSIVE Down(_, _, _)
Down(T, k, j) == IF k = 1 THEN j ELSE Down(T, k - 1, T[k - 1][j])

\* a divider is the number of its page and its key
SizesAt(T, sz, key, k) ==
    IF k = 1 THEN sz
    ELSE [j \in 1..(Len(T[k - 1]) - 1) |->
             4 + VarintLen(key[Down(T, k - 1, T[k - 1][j])])]

\* A leaf that overflows by a row appended after its last leaves that row
\* alone in a new leaf, unless its parent is page 1.
Quick(T, k, g0, first) == k = 1 /\ g0 = 0 /\ ~(first /\ Len(T) <= 2)

\* the first of the pages of level k under the last page of level k + 1
FirstChild(T, k) ==
    IF k + 1 >= Len(T) THEN 1
    ELSE Before(0, T[k + 1], Len(T[k + 1]) - 1) + 1

\* Otherwise the cells of the last pages under the same parent (three at
\* most) are spread again.
FirstSibling(T, k, g0, first) ==
    IF Quick(T, k, g0, first) THEN (IF Len(T[k]) > 1 THEN Len(T[k]) ELSE 1)
    ELSE IF FirstChild(T, k) > Len(T[k]) - 2 THEN FirstChild(T, k)
    ELSE Len(T[k]) - 2

Respread(T, sz, key, n, g0, first, k, f) ==
    SubSeq(T[k], 1, f - 1)
        \o (IF Quick(T, k, g0, first) THEN <<n - 1, n>>
            ELSE Balanced(SizesAt(T, sz, key, k), CellsAt(T, n, k), Gap(k, g0),
                          Room(k, g0), Before(0, T[k], f - 1)))

Spread(T, sz, key, n, g0, first, k) ==
    Respread(T, sz, key, n, g0, first, k, FirstSibling(T, k, g0, first))

\* The last page of level k has changed.  When its cells still fit, the
\* tree stands.  When they do not, the root hands its cells to a new page
\* under it, and a page that is not the root is spread with its siblings;
\* either way the level above has changed in turn.
RECURSIVE Settled(_, _, _, _, _, _, _)
Settled(T, sz, key, n, g0, first, k) ==
    IF k = Len(T)
    THEN IF Weight(SizesAt(T, sz, key, k), 1, CellsAt(T, n, k))
               <= RootRoom(k, g0, first)
         THEN T
         ELSE Settled(Append([T EXCEPT ![k] = Spread(T, sz, key, n, g0, first, k)],
                             <<>>),
                      sz, key, n, g0, first, k + 1)
    ELSE IF Weight(SizesAt(T, sz, key, k),
                   Before(0, T[k], Len(T[k]) - 1) + 1, CellsAt(T, n, k))
               <= Room(k, g0)
    THEN [T EXCEPT ![k][Len(T[k])] = CellsAt(T, n, k) + Gap(k, g0)]
    ELSE Settled([T EXCEPT ![k] = Spread(T, sz, key, n, g0, first, k)],
                 sz, key, n, g0, first, k + 1)

\* the tree after cell n of the lowest level is appended, or put again
\* with another size
PutCell(T, sz, key, n, g0, first) == Settled(T, sz, key, n, g0, first, 1)

\* the pages of a tree, the root too
PagesUnder(T) == 1 + Sum([k \in 1..Len(T) |-> Len(T[k])], 1, Len(T))

\* the interior pages of a table after the dividers a..b (one per leaf but
\* the last, its key the last rowid of the leaf) are appended
RECURSIVE InteriorTree(_, _, _, _, _)
InteriorTree(div, ends, a, b, T) ==
    IF a > b THEN T
    ELSE IF a = b THEN PutCell(T, div, ends, a, 1, FALSE)
    ELSE CHOOSE r \in {InteriorTree(div, ends, (a + b) \div 2 + 1, b, l) :
                           l \in {InteriorTree(div, ends, a, (a + b) \div 2, T)}} : TRUE

\* the pages of the tree whose leaves end at the rowids ends, the root too
TreePages(ends) ==
    IF Len(ends) = 0 THEN 1
    ELSE Len(ends) + 1
           + PagesUnder(InteriorTree(<<>> \o [j \in 1..Len(ends) |-> 4 + VarintLen(ends[j])],
                                     ends, 1, Len(ends), <<<<>>>>))

\* the pages of a table that holds rows, appended one by one
TablePages(rows) ==
    TreePages(LeafEnds(rows))
        + Sum([i \in 1..Len(rows) |-> OverflowPages(TextPayload(rows[i]))],
              1, Len(rows))

\* CREATE TABLE first writes the row of sqlite_master number n as a stub of
\* six bytes and then puts the record of the table in its place.
Stubbed(cells, n) == [i \in 1..n |-> IF i = n THEN 7 + VarintLen(n) ELSE cells[i]]

\* the tree of sqlite_master, rooted at page 1, after the rows a..b
RECURSIVE SchemaTree(_, _, _, _, _)
SchemaTree(cells, rowids, a, b, T) ==
    IF a > b THEN T
    ELSE IF a = b
    THEN PutCell(PutCell(T, Stubbed(cells, a), rowids, a, 0, TRUE),
                 cells, rowids, a, 0, TRUE)
    ELSE CHOOSE r \in {SchemaTree(cells, rowids, (a + b) \div 2 + 1, b, l) :
                           l \in {SchemaTree(cells, rowids, a, (a + b) \div 2, T)}} : TRUE

\* the tables of the store in the order of their creation
ByRoot(store) ==
    ByRank([t \in DOMAIN store |->
               Cardinality({u \in DOMAIN store :
                               store[u].rootpage <= store[t].rootpage})]
           @@ <<>>)

SchemaPayloadOf(store, t) ==
    SchemaPayload(Len(t), store[t].rootpage, Len(CreateSql(t, store[t].cols)))

\* the payloads of the rows of sqlite_master, and the pages the schema
\* takes besides page 1
SchemaPages(payloads) ==
    PagesUnder(SchemaTree(<<>> \o [i \in 1..Len(payloads) |-> CellSize(payloads[i], i)],
                          <<>> \o [i \in 1..Len(payloads) |-> i],
                          1, Len(payloads), <<<<>>>>)) - 1
        + Sum([i \in 1..Len(payloads) |-> OverflowPages(payloads[i])],
              1, Len(payloads))

SchemaPayloads(store, order) ==
    <<>> \o [i \in 1..Len(order) |-> SchemaPayloadOf(store, order[i])]

TablesPages(store, order) ==
    Sum([i \in 1..Len(order) |-> TablePages(store[order[i]].rows)], 1, Len(order))

PagesOf(store, order) ==
    1 + SchemaPages(SchemaPayloads(store, order)) + TablesPages(store, order)

\* PRAGMA page_count of the store
PageCount(store) == PagesOf(store, ByRoot(store))

\* the most columns the engine gives a table
MaxColumns == 2000

\* the engine's CREATE TABLE on a table that does not exist yet: the column
\* list is read from the left, and a column past MaxColumns is refused as a
\* column that repeats an earlier name is
CreateChecked(store, table, headers, repeats) ==
    IF ReservedName(table)
    THEN [store |-> store,
          err |-> "object name reserved for internal use: " \o table]
    ELSE IF Len(headers) = 0
    THEN [store |-> store, err |-> "near \")\": syntax error"]
    ELSE IF repeats # {} /\ Min(repeats) <= MaxColumns
    THEN [store |-> store, err |-> "duplicate column name: " \o headers[Min(repeats)]]
    ELSE IF Len(headers) > MaxColumns
    THEN [store |-> store, err |-> "too many columns on " \o table]
    ELSE [store |-> store @@ (table :> [cols |-> headers, rows |-> <<>>,
                                        rootpage |-> PageCount(store) + 1]),
          err |-> NoError]

\* conn.execute('CREATE TABLE IF NOT EXISTS "table" (cols TEXT, ...)'): the
\* name is refused or found while the statement is parsed, an empty column
\* list stops the parser even when the table exists
CreateTableIfNotExists(store, table, headers) ==
    IF HasTable(store, table) /\ ~ReservedName(table) /\ Len(headers) > 0
    THEN [store |-> store, err |-> NoError]
    ELSE CreateChecked(store, table, headers, Repeats(LowerAll(headers)))

\* the engine's schema tables, which every database holds
SchemaTable(table) ==
    IF Lower(table) \in {"sqlite_master", "sqlite_schema"} THEN "sqlite_master"
    ELSE IF Lower(table) \in {"sqlite_temp_master", "sqlite_temp_schema"}
    THEN "sqlite_temp_master"
    ELSE ""

\* the columns of a schema table
SchemaColumns == <<"type", "name", "tbl_name", "rootpage", "sql">>

\* the row of sqlite_master for the table t
SchemaRow(db, t) == <<"table", t, t, db[t].rootpage, CreateSql(t, db[t].cols)>>

\* the rows of sqlite_master: one per table, in the order of creation
SchemaRows(db) ==
    [i \in 1..Cardinality(DOMAIN db) |->
        SchemaRow(db, CHOOSE u \in DOMAIN db :
            Cardinality({v \in DOMAIN db : db[v].rootpage < db[u].rootpage}) = i - 1)]

\* the INSERT of nvalues values per row into the table the statement names;
\* the engine's messages carry the name as the statement writes it
InsertInto(store, table, nvalues, rows) ==
    IF nvalues = 0
    THEN [store |-> store, err |-> "near \")\": syntax error"]
    ELSE IF SchemaTable(table) # ""
    THEN [store |-> store,
          err |-> "table " \o SchemaTable(table) \o " may not be modified"]
    ELSE IF ~HasTable(store, table)
    THEN [store |-> store, err |-> "no such table: " \o table]
    ELSE IF Len(store[TableKey(store, table)].cols) # nvalues
    THEN [store |-> store,
          err |-> "table " \o table \o " has "
                  \o IntStr(Len(store[TableKey(store, table)].cols))
                  \o " columns but " \o IntStr(nvalues)
                  \o " values were supplied"]
    ELSE [store |-> [store EXCEPT ![TableKey(store, table)].rows = @ \o rows],
          err |-> NoError]

\* conn.executemany('INSERT INTO "table" VALUES (?, ...)', rows): the
\* statement is compiled against the existing table even when rows is empty.
InsertMany(store, table, nvalues, rows) == InsertInto(store, table, nvalues, rows)

\* --------------------------------------------------------------- loading
StripRows(kept) == [i \in 1..Len(kept) |-> StripAll(kept[i])]

\* MUTANT: a record longer than the header is cut to the header's length.
RetainedRows_Truncating(records, n) ==
    StripRows([i \in 1..Len(SelectSeq(Tail(records), LAMBDA row : Len(row) >= n)) |->
                  SubSeq(SelectSeq(Tail(records), LAMBDA row : Len(row) >= n)[i], 1, n)])

\* rows = [[c.strip() for c in row] for row in reader if len(row) == len(headers)]
RetainedRows(records, n) ==
    StripRows(SelectSeq(Tail(records), LAMBDA row : Len(row) = n))

\* rows[:_INFER_SAMPLE]
Sample(rows) ==
    SubSeq(rows, 1, IF Len(rows) < _INFER_SAMPLE THEN Len(rows) ELSE _INFER_SAMPLE)

\* the position whose value a dict comprehension keeps for a repeated key
LastPosition(headers, col) ==
    CHOOSE i \in 1..Len(headers) :
        headers[i] = col /\ \A j \in (i + 1)..Len(headers) : headers[j] # col

Column(sample, i) == [r \in 1..Len(sample) |-> sample[r][i]]

\* {col: _infer_type([row[i] for row in sample]) for i, col in enumerate(headers)}
InferColumns(headers, sample) ==
    [col \in {headers[i] : i \in 1..Len(headers)} |->
        _infer_type(Column(sample, LastPosition(headers, col)))]

\* _column_types[table] = ...
SetTypes(types, table, entry) ==
    [t \in DOMAIN types \cup {table} |-> IF t = table THEN entry ELSE types[t]]

\* lines 100-104 after the CREATE TABLE of line 100 ran
AfterCreate(created, types, table, headers, rows) ==
    IF created.err # NoError
    THEN [store |-> created.store, types |-> types, err |-> created.err]
    ELSE [types |-> types] @@ InsertMany(created.store, table, Len(headers), rows)

\* lines 91-104 for a file with the given headers and retained rows
LoadTable(acc, table, headers, rows) ==
    AfterCreate(CreateTableIfNotExists(acc.store, table, headers),
                SetTypes(acc.types, table, InferColumns(headers, Sample(rows))),
                table, headers, rows)

\* lines 82-104 for a file with at least one record
LoadRecords(acc, table, records, headers) ==
    LoadTable(acc, table, headers, RetainedRows(records, Len(headers)))

\* One iteration of the for loop of _load_folder over the entry e, from the
\* loader state acc = [store, types, err].
LoadEntry(acc, folder, e) ==
    IF ~Recognized(e.name) THEN acc
    ELSE IF e.kind # "file"
    THEN [acc EXCEPT !.err = "[Errno 21] Is a directory: "
                               \o Repr(ChildPath(folder, e.name))]
    ELSE IF Len(e.records) = 0 THEN acc
    ELSE LoadRecords(acc, Stem(e.name), e.records, StripAll(e.records[1]))

\* the for loop of _load_folder over entries, which an exception leaves:
\* the first half of the entries, then the second half from its result l
RECURSIVE LoadEntries(_, _, _)
LoadEntries(acc, folder, entries) ==
    IF Len(entries) = 0 \/ acc.err # NoError THEN acc
    ELSE IF Len(entries) = 1 THEN LoadEntry(acc, folder, entries[1])
    ELSE CHOOSE r \in
            {LoadEntries(l, folder, SubSeq(entries, Len(entries) \div 2 + 1, Len(entries))) :
                l \in {LoadEntries(acc, folder, SubSeq(entries, 1, Len(entries) \div 2))}} : TRUE

\* The body of _load_folder on a folder whose directory state is d: the
\* loader state when the loop ends or raises.  types is what _column_types
\* holds at that point; store is returned only when err = NoError.
LoadDirectory(folder, d) ==
    LoadEntries([store |-> EmptyStore, types |-> EmptyStore, err |-> NoError],
                folder, SortedByName(IF d.exists THEN d.entries ELSE {}))

\* ---------------------------------------------------------- environment
\* The folders requests name, and the directory contents they can have.
Folders == {"A", "B"}

OrdersCsv == File("orders.csv",
                  << <<"id", "qty">>, <<"1", " 2 ">>, <<"3", "4.5">>, <<"7">> >>)

OrdersTsv == File("orders.tsv", << <<"id", "qty">>, <<"x", "">> >>)

ItemsCsv == File("items.csv", << <<" sku ">>, <<"10">>, <<"20">>, <<"30">> >>)

ItemsCsvEdited == File("items.csv", << <<"sku">>, <<"10">>, <<"n/a">> >>)

BadCsv == File("bad.csv", << <<"k", "K">>, <<"1", "2">> >>)

EmptyCsv == File("empty.csv", <<>>)

NotesTxt == File("notes.txt", << <<"hello">> >>)

\* The directory states of the model, by name; disk[folder] is the name of
\* the state the folder is in.
Snapshot ==
    [Good      |-> Directory({OrdersCsv, ItemsCsv, EmptyCsv, NotesTxt}),
     Edited    |-> Directory({ItemsCsvEdited}),
     DupStem   |-> Directory({OrdersCsv, OrdersTsv}),
     BadHeader |-> Directory({BadCsv, ItemsCsv}),
     HardError |-> Directory({ItemsCsv, SubDir("sub.csv")}),
     NoSource  |-> Directory({NotesTxt}),
     Missing   |-> NotADirectory]

Contents(folder) ==
    IF folder = "A" THEN {"Good", "DupStem", "BadHeader", "Missing"}
    ELSE {"Edited", "HardError", "NoSource"}

\* Path(folder).is_dir()
IsDir(folder) == Snapshot[disk[folder]].exists

\* Path(folder).glob("*") / iterdir(): the entries of the directory; glob
\* yields nothing when the path is not a directory.
Glob(folder) == IF IsDir(folder) THEN Snapshot[disk[folder]].entries ELSE {}

\* _load_folder over every folder and directory state of the model,
\* evaluated once.
Loaded ==
    {[folder |-> f, state |-> d, l |-> LoadDirectory(f, Snapshot[d])] :
        f \in Folders, d \in DOMAIN Snapshot}

\* _load_folder(folder), reading the disk as it is now
_load_folder(folder) ==
    (CHOOSE r \in Loaded : r.folder = folder /\ r.state = disk[folder]).l

\* --------------------------------------------------------------- session
NoConn == [some |-> FALSE, db |-> EmptyStore]

\* The three globals, and the message of the exception a load raised.
Current == [conn |-> conn, loaded_folder |-> loaded_folder,
            column_types |-> column_types, err |-> NoError]

\* lines 115-116 around the loader state l that _load_folder ended in: when
\* it raised, _conn and _loaded_folder are not assigned, but _column_types
\* already is.
Reloaded(folder, l) ==
    IF l.err = NoError
    THEN [conn |-> [some |-> TRUE, db |-> l.store], loaded_folder |-> folder,
          column_types |-> l.types, err |-> NoError]
    ELSE [conn |-> conn, loaded_folder |-> loaded_folder,
          column_types |-> l.types, err |-> l.err]

\* _ensure_loaded without its cache test: every call loads.
_ensure_loaded_Always(folder) == Reloaded(folder, _load_folder(folder))

\* _ensure_loaded testing only _conn is None: the directory key is not
\* compared.
_ensure_loaded_KeyIgnored(folder) ==
    IF ~conn.some THEN Reloaded(folder, _load_folder(folder)) ELSE Current

\* _ensure_loaded(folder): the globals after the call
_ensure_loaded(folder) ==
    IF ~conn.some \/ loaded_folder # folder
    THEN Reloaded(folder, _load_folder(folder))
    ELSE Current

\* Path(folder).name
PathName(folder) ==
    IF Len(PathParts(folder)) = 0 THEN "" ELSE PathParts(folder)[Len(PathParts(folder))]

\* ------------------------------------------------------------ reflection
\* the list comprehension of _pragma_columns over the table's columns
Descriptors(cols, tt) ==
    [i \in 1..Len(cols) |->
        [name |-> cols[i],
         data_type |-> IF cols[i] \in DOMAIN tt THEN tt[cols[i]] ELSE "TEXT",
         is_pk |-> FALSE,
         is_nullable |-> TRUE,
         is_auto_increment |-> FALSE,
         default_value |-> None]]

\* The engine's own tables besides the schema tables: the table-valued
\* functions and virtual tables that every connection of this build of the
\* engine (SQLite 3.40.1) answers for, with the columns PRAGMA table_info
\* lists for them.  pragma_X of a pragma X listed in OwnColumnPragmas has
\* the one column X.
OwnColumnPragmas ==
    {"analysis_limit", "application_id", "auto_vacuum", "automatic_index",
     "cache_size", "cache_spill", "cell_size_check", "checkpoint_fullfsync",
     "compile_options", "count_changes", "data_version",
     "defer_foreign_keys", "empty_result_callbacks", "encoding",
     "foreign_keys", "freelist_count", "full_column_names", "fullfsync",
     "hard_heap_limit", "ignore_check_constraints", "integrity_check",
     "journal_mode", "journal_size_limit", "legacy_alter_table",
     "locking_mode", "max_page_count", "optimize", "page_count",
     "page_size", "query_only", "quick_check", "read_uncommitted",
     "recursive_triggers", "reverse_unordered_selects", "schema_version",
     "secure_delete", "short_column_names", "soft_heap_limit",
     "synchronous", "temp_store", "threads", "trusted_schema",
     "user_version", "writable_schema"}

EngineTables ==
    [dbstat |-> <<"name", "path", "pageno", "pagetype", "ncell", "payload",
         "unused", "mx_payload", "pgoffset", "pgsize">>,
     fts3tokenize |-> <<"input", "token", "start", "end", "position">>,
     json_each |-> <<"key", "value", "type", "atom", "id", "parent",
         "fullkey", "path">>,
     json_tree |-> <<"key", "value", "type", "atom", "id", "parent",
         "fullkey", "path">>,
     pragma_busy_timeout |-> <<"timeout">>,
     pragma_collation_list |-> <<"seq", "name">>,
     pragma_database_list |-> <<"seq", "name", "file">>,
     pragma_default_cache_size |-> <<"cache_size">>,
     pragma_foreign_key_check |-> <<"table", "rowid", "parent", "fkid">>,
     pragma_foreign_key_list |-> <<"id", "seq", "table", "from", "to",
         "on_update", "on_delete", "match">>,
     pragma_function_list |-> <<"name", "builtin", "type", "enc", "narg",
         "flags">>,
     pragma_index_info |-> <<"seqno", "cid", "name">>,
     pragma_index_list |-> <<"seq", "name", "unique", "origin", "partial">>,
     pragma_index_xinfo |-> <<"seqno", "cid", "name", "desc", "coll",
         "key">>,
     pragma_module_list |-> <<"name">>,
     pragma_pragma_list |-> <<"name">>,
     pragma_table_info |-> <<"cid", "name", "type", "notnull",
         "dflt_value", "pk">>,
     pragma_table_list |-> <<"schema", "name", "type", "ncol", "wr",
         "strict">>,
     pragma_table_xinfo |-> <<"cid", "name", "type", "notnull",
         "dflt_value", "pk", "hidden">>,
     sqlite_stmt |-> <<"sql", "ncol", "ro", "busy", "nscan", "nsort",
         "naidx", "nstep", "reprep", "run", "mem">>]

EngineColumns(name) ==
    IF name \in DOMAIN EngineTables THEN EngineTables[name]
    ELSE IF /\ Len(name) > 7
            /\ SubSeq(name, 1, 7) = "pragma_"
            /\ SubSeq(name, 8, Len(name)) \in OwnColumnPragmas
    THEN <<SubSeq(name, 8, Len(name))>>
    ELSE <<>>

\* db.execute(f'PRAGMA table_info("{table}")'), line 127: the names of the
\* columns listed (none for a name that is no table), or the engine's
\* error.  A loaded table comes before an engine table of its name; the
\* virtual table fts4aux cannot be opened without arguments.
TableInfo(db, table) ==
    IF SchemaTable(table) # "" THEN [cols |-> SchemaColumns, err |-> NoError]
    ELSE IF HasTable(db, table)
    THEN [cols |-> db[TableKey(db, table)].cols, err |-> NoError]
    ELSE IF Lower(table) = "fts4aux"
    THEN [cols |-> <<>>, err |-> "invalid arguments to fts4aux constructor"]
    ELSE [cols |-> EngineColumns(Lower(table)), err |-> NoError]

PragmaColumns(info, tt) == [columns |-> Descriptors(info.cols, tt), err |-> info.err]

\* _pragma_columns(db, table) with types = the _column_types in force: the
\* list returned, or the message of the error raised
_pragma_columns(db, types, table) ==
    PragmaColumns(TableInfo(db, table),
                  IF table \in DOMAIN types THEN types[table] ELSE EmptyStore)

\* SELECT name FROM sqlite_master WHERE type='table' ORDER BY name
TableNames(db) == SortedStrings(DOMAIN db)

TableList(names) == [i \in 1..Len(names) |-> [name |-> names[i]]]

SchemaSnapshot(db, types, names) ==
    [i \in 1..Len(names) |->
        [name |-> names[i],
         columns |-> _pragma_columns(db, types, names[i]).columns,
         foreign_keys |-> <<>>]]

\* ----------------------------------------------------------------- query
\* The SQL statements the model sends: [op, table] stands for
\* SELECT * FROM table / DELETE FROM table / DROP TABLE table, where table
\* is an identifier that names a loaded table, a schema table of the engine
\* or no table at all (a statement on one of the engine's table-valued
\* functions or virtual tables, such as pragma_table_info or json_each, is
\* not among the statements modelled).
Select(t) == [op |-> "select", table |-> t]

Delete(t) == [op |-> "delete", table |-> t]

Drop(t) == [op |-> "drop", table |-> t]

\* the statement run against the existing table t
ExecuteOn(db, op, t) ==
    CASE op = "select" ->
            [db |-> db, rows |-> db[t].rows, columns |-> db[t].cols,
             rowcount |-> -1, err |-> NoError]
      [] op = "delete" ->
            [db |-> [db EXCEPT ![t].rows = <<>>], rows |-> <<>>,
             columns |-> <<>>, rowcount |-> Len(db[t].rows), err |-> NoError]
      [] op = "drop" ->
            [db |-> [u \in DOMAIN db \ {t} |-> db[u]], rows |-> <<>>,
             columns |-> <<>>, rowcount |-> -1, err |-> NoError]

\* the statement run against the schema table name: it can be read, with
\* no row in the temporary one, and neither written nor dropped
ExecuteOnSchema(db, op, name) ==
    CASE op = "select" ->
            [db |-> db,
             rows |-> IF name = "sqlite_master" THEN SchemaRows(db) ELSE <<>>,
             columns |-> SchemaColumns, rowcount |-> -1, err |-> NoError]
      [] op = "delete" ->
            [db |-> db, rows |-> <<>>, columns |-> <<>>, rowcount |-> -1,
             err |-> "table " \o name \o " may not be modified"]
      [] op = "drop" ->
            [db |-> db, rows |-> <<>>, columns |-> <<>>, rowcount |-> -1,
             err |-> "table " \o name \o " may not be dropped"]

\* db.execute(query); cur.fetchall(): the store afterwards, the rows
\* fetched, cur.description's names, cur.rowcount, or the engine's error.
Execute(db, query) ==
    IF SchemaTable(query.table) # ""
    THEN ExecuteOnSchema(db, query.op, SchemaTable(query.table))
    ELSE IF ~HasTable(db, query.table)
    THEN [db |-> db, rows |-> <<>>, columns |-> <<>>, rowcount |-> -1,
          err |-> "no such table: " \o query.table]
    ELSE ExecuteOn(db, query.op, TableKey(db, query.table))

DefaultPage == 1

DefaultPageSize == 100

Max(a, b) == IF a > b THEN a ELSE b

\* params.get(key, default) of an optional integer parameter
ParamOr(p, default) == IF p.given THEN p.value ELSE default

\* the slice taken one page too far: all_rows[offset + page_size : ...]
Slice_NextPage(all_rows, offset, size) ==
    SubSeq(all_rows, offset + size + 1,
           IF offset + 2 * size < Len(all_rows) THEN offset + 2 * size
           ELSE Len(all_rows))

\* all_rows[offset : offset + page_size]
Slice(all_rows, offset, size) ==
    SubSeq(all_rows, offset + 1,
           IF offset + size < Len(all_rows) THEN offset + size ELSE Len(all_rows))

\* the envelope with truncated = total >= offset + page_size
Envelope_TruncatedAtEnd(x, page, page_size) ==
    [columns |-> x.columns,
     rows |-> Slice(x.rows, (page - 1) * page_size, page_size),
     affected_rows |-> IF x.rowcount >= 0 THEN x.rowcount ELSE 0,
     truncated |-> Len(x.rows) >= (page - 1) * page_size + page_size,
     pagination |-> [page |-> page, page_size |-> page_size,
                     total_rows |-> Len(x.rows)]]

\* lines 205-218: the envelope for the clamped page and page_size
Envelope(x, page, page_size) ==
    [columns |-> x.columns,
     rows |-> Slice(x.rows, (page - 1) * page_size, page_size),
     affected_rows |-> IF x.rowcount >= 0 THEN x.rowcount ELSE 0,
     truncated |-> Len(x.rows) > (page - 1) * page_size + page_size,
     pagination |-> [page |-> page, page_size |-> page_size,
                     total_rows |-> Len(x.rows)]]

\* lines 200-201
ClampPage(req) == Max(1, ParamOr(req.page, DefaultPage))

\* MUTANT: the page size is used as requested.
ClampPageSize_Unclamped(req) == ParamOr(req.page_size, DefaultPageSize)

ClampPageSize(req) == Max(1, ParamOr(req.page_size, DefaultPageSize))

\* -------------------------------------------------------------- dispatch
Raise(sess, exc, msg) == [sess |-> sess, exc |-> exc, msg |-> msg, result |-> <<>>]

Return(sess, result) == [sess |-> sess, exc |-> "", msg |-> "", result |-> result]

EmptyListMethods == {"get_schemas", "get_foreign_keys", "get_indexes",
                     "get_views", "get_routines", "get_routine_parameters"}

WriteMethods == {"insert_record", "update_record", "delete_record"}

\* the execute_query branch of handle after db.execute(query) gave x
QueryBranch(s, x, req) ==
    IF x.err # NoError THEN Raise(s, "Exception", x.err)
    ELSE Return([s EXCEPT !.conn.db = x.db],
                Envelope(x, ClampPage(req), ClampPageSize(req)))

\* the get_columns branch of handle after _pragma_columns gave x
ColumnsBranch(s, x) ==
    IF x.err # NoError THEN Raise(s, "Exception", x.err) ELSE Return(s, x.columns)

\* the get_all_columns_batch branch after _pragma_columns gave xs[t] for
\* the table t (an error raised is that of fts4aux, whichever table it is)
BatchBranch(s, xs) ==
    IF \E t \in DOMAIN xs : xs[t].err # NoError
    THEN Raise(s, "Exception", xs[CHOOSE t \in DOMAIN xs : xs[t].err # NoError].err)
    ELSE Return(s, [t \in DOMAIN xs |-> xs[t].columns])

\* lines 161-224 of handle, after db = _ensure_loaded(folder) returned
Dispatch(s, req) ==
    CASE req.method = "get_databases" -> Return(s, <<PathName(req.folder)>>)
      [] req.method \in EmptyListMethods -> Return(s, <<>>)
      [] req.method = "get_tables" -> Return(s, TableList(TableNames(s.conn.db)))
      [] req.method = "get_columns" ->
            ColumnsBranch(s, _pragma_columns(s.conn.db, s.column_types, req.table))
      [] req.method = "get_schema_snapshot" ->
            Return(s, SchemaSnapshot(s.conn.db, s.column_types, TableNames(s.conn.db)))
      [] req.method = "get_all_columns_batch" ->
            BatchBranch(s, [t \in {req.tables[i] : i \in 1..Len(req.tables)} |->
                              _pragma_columns(s.conn.db, s.column_types, t)])
      [] req.method = "get_all_foreign_keys_batch" ->
            Return(s, [t \in {req.tables[i] : i \in 1..Len(req.tables)} |-> <<>>])
      [] req.method = "execute_query" ->
            QueryBranch(s, Execute(s.conn.db, req.query), req)
      [] req.method \in WriteMethods -> Raise(s, "Exception", "CSV files are read-only")
      [] OTHER -> Raise(s, "NotImplementedError", req.method)

\* line 158 and what follows it: _ensure_loaded raised, or dispatch
DispatchLoaded(s, req) ==
    IF s.err # NoError THEN Raise(s, "Exception", s.err) ELSE Dispatch(s, req)

\* line 155 and what follows it
TestConnectionLoaded(s) ==
    IF s.err # NoError THEN Raise(s, "Exception", s.err)
    ELSE Return(s, [success |-> TRUE])

\* the test_connection branch without the checks of lines 149-154
TestConnectionBranch_Unvalidated(folder) ==
    TestConnectionLoaded(_ensure_loaded(folder))

\* the test_connection branch of handle, lines 148-156
TestConnectionBranch(folder) ==
    IF ~IsDir(folder)
    THEN Raise(Current, "Exception", "Not a directory: " \o Repr(folder))
    ELSE IF ~\E e \in Glob(folder) : Recognized(e.name)
    THEN Raise(Current, "Exception", "No .csv / .tsv files found in: " \o Repr(folder))
    ELSE TestConnectionLoaded(_ensure_loaded(folder))

\* handle(method, params): the globals afterwards and the value returned or
\* the exception raised.
handle(req) ==
    IF req.method = "test_connection" THEN TestConnectionBranch(req.folder)
    ELSE DispatchLoaded(_ensure_loaded(req.folder), req)

\* ------------------------------------------------------------- JSON-RPC
_ok(result) == [error |-> FALSE, code |-> 0, message |-> "", result |-> result]

_err(code, msg) == [error |-> TRUE, code |-> code, message |-> msg, result |-> <<>>]

MethodNotFound == -32601

InternalError == -32603

\* the try/except of main around handle
Respond(o) ==
    IF o.exc = "" THEN _ok(o.result)
    ELSE IF o.exc = "NotImplementedError"
    THEN _err(MethodNotFound, "Method not found: " \o o.msg)
    ELSE _err(InternalError, o.msg)

\* ------------------------------------------------------------- requests
MaxPage == 3

MaxPageSize == 2

Absent == [given |-> FALSE, value |-> 0]

Given(v) == [given |-> TRUE, value |-> v]

Request(method, folder) ==
    [method |-> method, folder |-> folder, table |-> "", tables |-> <<>>,
     query |-> Select(""), page |-> Absent, page_size |-> Absent]

TableParams == {"orders", "items"}

TablesParams == {<<>>, <<"orders">>, <<"items", "orders">>}

Queries ==
    {Select("orders"), Select("items"), Delete("orders"), Drop("items"),
     Select("sqlite_master")}

Pages == {Absent} \cup {Given(v) : v \in -1..MaxPage}

PageSizes == {Absent} \cup {Given(v) : v \in -1..MaxPageSize}

\* ---------------------------------------------------------------- actions
Init ==
    /\ disk \in [Folders -> DOMAIN Snapshot]
    /\ \A f \in Folders : disk[f] \in Contents(f)
    /\ conn = NoConn
    /\ loaded_folder = None
    /\ column_types = EmptyStore
    /\ request = Request("", "")
    /\ response = _ok(<<>>)
    /\ stdin = <<>>
    /\ stdout = <<>>
    /\ running = TRUE
    /\ input = <<>>
    /\ output = <<>>

\* The request lines the client sends: method and params.
Requests ==
    {Request(m, f) : f \in Folders,
                     m \in {"test_connection", "get_databases", "get_tables",
                            "get_schema_snapshot", "bogus"} \cup EmptyListMethods}
    \cup {[Request("get_columns", f) EXCEPT !.table = t] :
            f \in Folders,
            t \in TableParams \cup {"ORDERS", "sqlite_master", "json_each", "fts4aux"}}
    \cup {[Request(m, f) EXCEPT !.tables = ts] :
            f \in Folders, ts \in TablesParams,
            m \in {"get_all_columns_batch", "get_all_foreign_keys_batch"}}
    \cup {[Request("execute_query", f) EXCEPT !.query = q] :
            f \in Folders, q \in Queries}
    \cup {[Request(m, f) EXCEPT !.table = t] :
            f \in Folders, m \in WriteMethods, t \in TableParams}

\* execute_query over every page and page_size of the model
PagedRequests ==
    {[Request("execute_query", f) EXCEPT
         !.query = Select(t), !.page = p, !.page_size = ps] :
        f \in Folders, t \in TableParams, p \in Pages, ps \in PageSizes}

Calls(methods) == {r \in Requests : r.method \in methods}

\* Lines 247-258 of main for the request req: handle runs and its outcome
\* becomes the response.
Answer(req) ==
    \E o \in {handle(req)} :
        /\ conn' = o.sess.conn
        /\ loaded_folder' = o.sess.loaded_folder
        /\ column_types' = o.sess.column_types
        /\ request' = req
        /\ response' = Respond(o)
        /\ UNCHANGED disk

\* One iteration of main's loop over a well-formed request line.
Serve(req) == Answer(req) /\ UNCHANGED <<stdin, stdout, running, input, output>>

TestConnection == \E req \in Calls({"test_connection"}) : Serve(req)

GetDatabases == \E req \in Calls({"get_databases"}) : Serve(req)

GetEmptyList == \E req \in Calls(EmptyListMethods) : Serve(req)

GetTables == \E req \in Calls({"get_tables"}) : Serve(req)

GetColumns == \E req \in Calls({"get_columns"}) : Serve(req)

GetSchemaSnapshot == \E req \in Calls({"get_schema_snapshot"}) : Serve(req)

GetAllColumnsBatch == \E req \in Calls({"get_all_columns_batch"}) : Serve(req)

GetAllForeignKeysBatch ==
    \E req \in Calls({"get_all_foreign_keys_batch"}) : Serve(req)

ExecuteQuery == \E req \in Calls({"execute_query"}) : Serve(req)

PagedQuery == \E req \in PagedRequests : Serve(req)

ClearTable ==
    \E req \in Calls({"execute_query"}) : req.query.op = "delete" /\ Serve(req)

WriteRecord == \E req \in Calls(WriteMethods) : Serve(req)

UnknownMethod == \E req \in Calls({"bogus"}) : Serve(req)

\* The files of a folder change on disk between two requests.
DiskChange ==
    /\ \E f \in Folders : \E c \in Contents(f) : disk' = [disk EXCEPT ![f] = c]
    /\ UNCHANGED <<conn, loaded_folder, column_types, request, response,
                   stdin, stdout, running, input, output>>

Next ==
    \/ TestConnection
    \/ GetTables
    \/ GetDatabases
    \/ GetEmptyList
    \/ GetColumns
    \/ GetSchemaSnapshot
    \/ GetAllColumnsBatch
    \/ GetAllForeignKeysBatch
    \/ ExecuteQuery
    \/ WriteRecord
    \/ UnknownMethod
    \/ DiskChange

Spec == Init /\ [][Next]_vars

\* The query path alone, over the whole page grid.
NextPaging ==
    \/ PagedQuery
    \/ ClearTable
    \/ DiskChange

SpecPaging == Init /\ [][NextPaging]_vars

\* ------------------------------------------------- the loader on its own
\* _load_folder applied to one directory: input is the directory, output
\* holds what the load left (store, type map, error) once it has run.
MaxRows == 4

HeaderRows == {<<"x">>, <<" x", "y ">>}

\* the data records of a file: one or two fields, or none (a blank line)
DataRows == {<<"1">>, <<" 2">>, <<"3", "x">>, <<>>}

RowSeqs(n) == UNION {[1..k -> DataRows] : k \in 0..n}

\* what csv.reader yields for the first file: nothing, or a header and rows
FileRecords ==
    {<<>>} \cup {<<h>> \o d : h \in HeaderRows, d \in RowSeqs(MaxRows)}

\* what it yields for the second file (the last one: a blank first line)
SecondRecords ==
    { <<>>,
      << <<"x">> >>,
      << <<"x">>, <<"9">>, <<"8", "7">> >>,
      << <<"k", "K">>, <<"1", "2">> >>,
      << <<>>, <<"1">> >> }

\* the names of the two files: other stems, stems that differ in case
\* only, the same stem, a stem SQLite reserves
NamePairs ==
    {<<"a.csv", "b.CSV">>, <<"a.csv", "A.tsv">>, <<"a.csv", "a.tsv">>,
     <<"a.csv", "sqlite_b.csv">>}

Directories ==
    {Directory({File(p[1], r), File(p[2], s), NotesTxt}) :
        p \in NamePairs, r \in FileRecords, s \in SecondRecords}

InitLoad ==
    /\ disk = [f \in Folders |-> "NoSource"]
    /\ conn = NoConn
    /\ loaded_folder = None
    /\ column_types = EmptyStore
    /\ request = Request("", "")
    /\ response = _ok(<<>>)
    /\ stdin = <<>>
    /\ stdout = <<>>
    /\ running = TRUE
    /\ input \in Directories
    /\ output = <<>>

LoadFolder ==
    /\ output = <<>>
    /\ \E l \in {LoadDirectory("A", input)} :
          /\ output' = <<l>>
          /\ column_types' = l.types
    /\ UNCHANGED <<disk, conn, loaded_folder, request, response,
                   stdin, stdout, running, input>>

SpecLoad == InitLoad /\ [][LoadFolder]_vars

\* --------------------------------------------- the inferencer on its own
\* _infer_type applied to one sample: input is the list of values, output
\* holds the type returned once it has run.
MaxSample == 3

\* s repeated n times
RECURSIVE Repeat(_, _)
Repeat(s, n) ==
    IF n = 0 THEN ""
    ELSE IF n % 2 = 1 THEN s \o Repeat(s, n - 1)
    ELSE Repeat(s \o s, n \div 2)

\* an integer of one digit more than int() converts
OverlongInteger == Repeat("1", int_max_str_digits + 1)

\* the values a cell of the sample can hold
CellValues ==
    {"", " ", "1", "-2", " 3 ", "1_0", "4.5", "1e3", "+.5", "x", "0x1",
     OverlongInteger}

Samples == UNION {[1..k -> CellValues] : k \in 0..MaxSample}

InitInfer ==
    /\ disk = [f \in Folders |-> "NoSource"]
    /\ conn = NoConn
    /\ loaded_folder = None
    /\ column_types = EmptyStore
    /\ request = Request("", "")
    /\ response = _ok(<<>>)
    /\ stdin = <<>>
    /\ stdout = <<>>
    /\ running = TRUE
    /\ input \in Samples
    /\ output = <<>>

InferType ==
    /\ output = <<>>
    /\ output' = <<_infer_type(input)>>
    /\ UNCHANGED <<disk, conn, loaded_folder, column_types, request, response,
                   stdin, stdout, running, input>>

SpecInfer == InitInfer /\ [][InferType]_vars

\* ------------------------------------------------------ the request loop
\* main over the lines of its standard input.  A line is blank, is not
\* JSON ("{bad"), is JSON but not an object ("[1,2]"), or is a request
\* object with an id.
MaxLines == 3

ParseError == -32700

ParseErrorMessage ==
    "Expecting property name enclosed in double quotes: line 1 column 2 (char 1)"

Line(kind, id, req) == [kind |-> kind, id |-> id, req |-> req]

\* the requests the lines of the loop carry
LoopRequests == {r \in Requests : r.method \in {"get_tables", "bogus"}}

\* the lines that can stand at position i; a request there has id i
LinesAt(i) ==
    {Line(k, Absent, Request("", "")) : k \in {"blank", "malformed", "value"}}
    \cup {Line("object", Given(i), r) : r \in LoopRequests}

Inputs ==
    UNION {{ls \in [1..n -> UNION {LinesAt(i) : i \in 1..n}] :
               \A i \in 1..n : ls[i] \in LinesAt(i)} : n \in 0..MaxLines}

\* a line of standard output: the id and the result or error
Printed(id, body) == [id |-> id, body |-> body]

InitLoop ==
    /\ disk \in [Folders -> DOMAIN Snapshot]
    /\ \A f \in Folders : disk[f] \in Contents(f)
    /\ conn = NoConn
    /\ loaded_folder = None
    /\ column_types = EmptyStore
    /\ request = Request("", "")
    /\ response = _ok(<<>>)
    /\ input \in Inputs
    /\ stdin = input
    /\ stdout = <<>>
    /\ running = TRUE
    /\ output = <<>>

\* lines 238-240: a blank line is skipped
SkipBlank ==
    /\ running /\ stdin # <<>> /\ Head(stdin).kind = "blank"
    /\ stdin' = Tail(stdin)
    /\ UNCHANGED <<disk, conn, loaded_folder, column_types, request, response,
                   stdout, running, input, output>>

\* lines 242-246: json.loads raises JSONDecodeError
RejectMalformed ==
    /\ running /\ stdin # <<>> /\ Head(stdin).kind = "malformed"
    /\ stdin' = Tail(stdin)
    /\ response' = _err(ParseError, ParseErrorMessage)
    /\ stdout' = Append(stdout, Printed(Absent, response'))
    /\ UNCHANGED <<disk, conn, loaded_folder, column_types, request,
                   running, input, output>>

\* line 248: req.get on a value that is not a dict raises AttributeError
\* outside the try blocks; the exception leaves main and the process ends
CrashOnValue ==
    /\ running /\ stdin # <<>> /\ Head(stdin).kind = "value"
    /\ stdin' = Tail(stdin)
    /\ running' = FALSE
    /\ UNCHANGED <<disk, conn, loaded_folder, column_types, request, response,
                   stdout, input, output>>

\* lines 248-260: the request is handled and its response printed
HandleRequest ==
    /\ running /\ stdin # <<>> /\ Head(stdin).kind = "object"
    /\ stdin' = Tail(stdin)
    /\ Answer(Head(stdin).req)
    /\ stdout' = Append(stdout, Printed(Head(stdin).id, response'))
    /\ UNCHANGED <<running, input, output>>

\* line 237: the iteration over sys.stdin ends
EndOfInput ==
    /\ running /\ stdin = <<>>
    /\ running' = FALSE
    /\ UNCHANGED <<disk, conn, loaded_folder, column_types, request, response,
                   stdin, stdout, input, output>>

NextLoop ==
    \/ SkipBlank
    \/ RejectMalformed
    \/ HandleRequest
    \/ CrashOnValue
    \/ EndOfInput

SpecLoop == InitLoop /\ [][NextLoop]_vars

\* ============================================================ properties
\* A step that served a request: DiskChange is the only other step, and
\* every step of it that is not a stutter changes disk; before the first
\* request, request names no folder.
Served == disk' = disk /\ request'.folder \in Folders

\* The directory a request names when it arrives cannot be a source: it
\* does not exist or holds no .csv/.tsv file.
InvalidSource(folder) ==
    ~IsDir(folder) \/ ~\E e \in Glob(folder) : Recognized(e.name)

SessionUnchanged ==
    /\ conn' = conn
    /\ loaded_folder' = loaded_folder
    /\ column_types' = column_types

\* C1: the session is replaced as one unit: while a store is cached, a step
\* that changes the type map is a completed load, which also changes the
\* cached directory key (and leaves a store cached), so that the store, the
\* key and the type map always come from one load.
C1_SessionReplacedAsOneUnit ==
    [][(conn.some /\ column_types' # column_types)
          => (conn'.some /\ loaded_folder' # loaded_folder)]_vars

\* C2: a request of any method naming a directory that does not exist or
\* holds no .csv/.tsv file ends in an error and leaves the cached directory
\* key, the store and the type map as they were (stated where a session is
\* cached, the case in which there is something to keep).
C2_InvalidSourceRejectedByEveryMethod ==
    [][(Served /\ conn.some /\ InvalidSource(request'.folder))
          => (response'.error /\ SessionUnchanged)]_vars

\* C3: test_connection on a directory that exists but holds no .csv/.tsv
\* file fails with the error naming the path and leaves the cached directory
\* key, the store and the type map unchanged.
C3_TestConnectionWithoutSource ==
    [][(/\ Served
        /\ request'.method = "test_connection"
        /\ IsDir(request'.folder)
        /\ ~\E e \in Glob(request'.folder) : Recognized(e.name))
          => (/\ response'.error
              /\ response'.code = InternalError
              /\ response'.message =
                    "No .csv / .tsv files found in: '" \o request'.folder \o "'"
              /\ SessionUnchanged)]_vars

C3_Witness ==
    /\ request.method = "test_connection"
    /\ request.folder = "B"
    /\ disk["B"] = "NoSource"
    /\ response.error
    /\ response.message = "No .csv / .tsv files found in: 'B'"
    /\ conn.some
    /\ loaded_folder = "A"

Introspection ==
    {"get_tables", "get_columns", "get_schema_snapshot",
     "get_all_columns_batch", "get_all_foreign_keys_batch"}

\* C4: a request naming the cached directory performs no load, whatever is
\* on disk now: the session is unchanged (execute_query aside, whose SQL
\* may write to the store), and an introspection request that repeats the
\* previous request gets the previous response again.
C4_CachedDirectoryIsNotReloaded ==
    [][(Served /\ conn.some /\ request'.folder = loaded_folder)
          => (/\ loaded_folder' = loaded_folder
              /\ column_types' = column_types
              /\ request'.method # "execute_query" => conn' = conn
              /\ (request' = request /\ request.method \in Introspection)
                    => response' = response)]_vars

\* A cached session of A still lists the tables of the files A held when it
\* was loaded, while A is gone from disk.
C4_Witness ==
    /\ request.method = "get_tables"
    /\ request.folder = "A"
    /\ conn.some
    /\ loaded_folder = "A"
    /\ disk["A"] = "Missing"
    /\ response.result = TableList(<<"items", "orders">>)

\* The names of the tables the recognized files of a directory give.
StemsOn(folder) == {Stem(e.name) : e \in {x \in Glob(folder) : Recognized(x.name)}}

\* C5 as stated: a request naming a directory other than the cached one
\* always replaces the session: afterwards the cached key is that directory
\* and the store holds only tables of its files.
C5_OtherDirectoryAlwaysReplaces ==
    [][(Served /\ conn.some /\ request'.folder # loaded_folder)
          => (/\ loaded_folder' = request'.folder
              /\ DOMAIN conn'.db \subseteq StemsOn(request'.folder))]_vars

\* The load a request naming this folder performs now completes.
LoadCompletes(folder) == _load_folder(folder).err = NoError

\* test_connection's validation turns the request away before any load.
Rejected(req) == req.method = "test_connection" /\ InvalidSource(req.folder)

\* C5 as amended: a request naming a directory other than the cached one,
\* that test_connection's validation does not reject and whose load
\* completes, replaces the session by that load: the cached key is the
\* directory named, the type map is the load's, the store is the load's
\* (after the SQL of the request itself, for execute_query) and holds only
\* tables of the directory's files; this holds again when a later request
\* names the first directory.  When the request is rejected or its load
\* raises, the store and the cached key stay those of the first directory.
C5_CompletedLoadReplaces ==
    [][(Served /\ conn.some /\ request'.folder # loaded_folder) =>
          IF ~Rejected(request') /\ LoadCompletes(request'.folder)
          THEN /\ loaded_folder' = request'.folder
               /\ conn'.some
               /\ column_types' = _load_folder(request'.folder).types
               /\ DOMAIN conn'.db \subseteq StemsOn(request'.folder)
               /\ request'.method # "execute_query"
                     => conn'.db = _load_folder(request'.folder).store
               /\ request'.method = "execute_query"
                     => conn'.db = Execute(_load_folder(request'.folder).store,
                                           request'.query).db
          ELSE /\ loaded_folder' = loaded_folder
               /\ conn' = conn]_vars

\* After A was cached, a request naming B is answered from B's one file.
C5_Witness ==
    /\ request.method = "get_tables"
    /\ request.folder = "B"
    /\ loaded_folder = "B"
    /\ disk["B"] = "Edited"
    /\ disk["A"] = "Good"
    /\ DOMAIN conn.db = {"items"}
    /\ response.result = TableList(<<"items">>)

\* The page and page_size a request asks for (1 and 100 when it gives none).
AskedPage == ParamOr(request.page, DefaultPage)

AskedPageSize == ParamOr(request.page_size, DefaultPageSize)

\* An answered SELECT: its complete result is the table's rows in the store.
AnsweredSelect ==
    /\ request.method = "execute_query"
    /\ request.query.op = "select"
    /\ ~response.error

CompleteResult == conn.db[request.query.table].rows

\* C6: for page >= 1 and page_size >= 1 execute_query returns the rows at
\* 0-based positions [(page-1)*page_size, min(page*page_size, T)) of the
\* complete result of T rows, in order, and total_rows = T.
C6_PageWindow ==
    (AnsweredSelect /\ AskedPage >= 1 /\ AskedPageSize >= 1) =>
        /\ response.result.pagination.total_rows = Len(CompleteResult)
        /\ Len(response.result.rows) =
              Max(0, Min({AskedPage * AskedPageSize, Len(CompleteResult)})
                        - (AskedPage - 1) * AskedPageSize)
        /\ \A i \in 1..Len(response.result.rows) :
              response.result.rows[i] =
                 CompleteResult[(AskedPage - 1) * AskedPageSize + i]

\* Page 2 of size 2 over the 3 rows of items: the third row alone.
C6_Witness ==
    /\ AnsweredSelect
    /\ request.page = Given(2)
    /\ request.page_size = Given(2)
    /\ Len(CompleteResult) = 3
    /\ response.result.rows = << <<"30">> >>
    /\ response.result.pagination.total_rows = 3

\* C7: truncated is true exactly when total_rows > page*page_size; it is
\* false on the last page, on a page past the end, and for an empty result.
C7_TruncatedIffRowsBeyondWindow ==
    (AnsweredSelect /\ AskedPage >= 1 /\ AskedPageSize >= 1) =>
        /\ response.result.truncated
              <=> Len(CompleteResult) > AskedPage * AskedPageSize
        /\ response.result.rows = <<>> => ~response.result.truncated

\* Page 1 of size 2 over 3 rows: one row lies beyond the window.
C7_Witness ==
    /\ AnsweredSelect
    /\ request.page = Given(1)
    /\ request.page_size = Given(2)
    /\ Len(CompleteResult) = 3
    /\ response.result.truncated

\* C8: insert_record, update_record and delete_record always fail with the
\* read-only error, whatever directory they name.
C8_WritesAlwaysReadOnly ==
    request.method \in WriteMethods =>
        /\ response.error
        /\ response.message = "CSV files are read-only"

\* A step whose request made _ensure_loaded load the directory it names,
\* and in which the load completed.
LoadCompleted ==
    /\ Served
    /\ request'.method # "execute_query"
    /\ ~conn.some \/ loaded_folder # request'.folder
    /\ conn'.some
    /\ loaded_folder' = request'.folder

\* The recognized files of a directory that are first of their stem in
\* sorted order.
FirstOfStem(entries) ==
    {e \in entries :
        /\ Recognized(e.name)
        /\ ~\E o \in entries : /\ Recognized(o.name)
                               /\ Lower(Stem(o.name)) = Lower(Stem(e.name))
                               /\ StrLess(o.name, e.name)}

\* C9: of the recognized files that share a stem only the first in sorted
\* order contributes: after a load, the tables (columns and rows) and the
\* type map are those of the directory without the later files.
C9_FirstFileOfStemWins ==
    [][LoadCompleted =>
          /\ conn'.db = LoadDirectory(request'.folder,
                           Directory(FirstOfStem(Glob(request'.folder)))).store
          /\ column_types' = LoadDirectory(request'.folder,
                           Directory(FirstOfStem(Glob(request'.folder)))).types]_vars

\* A step whose request made _ensure_loaded load the directory it names.
LoadAttempted ==
    /\ Served
    /\ request'.method # "execute_query"
    /\ ~(request'.method = "test_connection" /\ InvalidSource(request'.folder))
    /\ ~conn.some \/ loaded_folder # request'.folder

\* C10: unless an entry cannot be read at all (a hard filesystem error),
\* the load is not aborted by a file that fails: it completes, and every
\* file that loads on its own has its table in the store.
C10_FileFailureDoesNotAbortLoad ==
    [][(LoadAttempted /\ \A e \in Glob(request'.folder) : e.kind = "file")
          => (/\ conn'.some
              /\ loaded_folder' = request'.folder
              /\ \A e \in Glob(request'.folder) :
                    DOMAIN LoadDirectory(request'.folder, Directory({e})).store
                        \subseteq DOMAIN conn'.db)]_vars

\* The load of the directory in input ran to its end and returned a store.
LoadReturned == output # <<>> /\ output[1].err = NoError

RecognizedFiles(d) == {e \in d.entries : Recognized(e.name)}

\* the data records of a file (all but the header) that have n fields
FittingRows(e) ==
    {i \in 2..Len(e.records) : Len(e.records[i]) = Len(e.records[1])}

\* the recognized files that have a header record
FilesWithHeader(d) == {e \in RecognizedFiles(d) : Len(e.records) > 0}

\* the tables in the database the load built, whether it returned it or
\* raised on the way
Yielded == output[1].store

\* C11: when the recognized files of the directory have pairwise distinct
\* stems, loading it yields exactly one table per recognized file, and the
\* table of a file has as many rows as the file has data records whose
\* field count is the header's.  The files counted are those with at least
\* a header record: a file with no record at all is skipped by design and
\* is not held against the code here.
C11_OneTablePerRecognizedFile ==
    (/\ output # <<>>
     /\ \A e1, e2 \in RecognizedFiles(input) :
           e1 # e2 => Stem(e1.name) # Stem(e2.name))
    => /\ Cardinality(DOMAIN Yielded) = Cardinality(FilesWithHeader(input))
       /\ \A e \in FilesWithHeader(input) :
             /\ Stem(e.name) \in DOMAIN Yielded
             /\ Len(Yielded[Stem(e.name)].rows) = Cardinality(FittingRows(e))

\* a file without its data records whose field count is not the header's
WithoutRagged(e) ==
    [e EXCEPT !.records =
        IF Len(@) = 0 THEN @
        ELSE <<@[1]>> \o SelectSeq(Tail(@), LAMBDA row : Len(row) = Len(e.records[1]))]

\* the position in the file of its k-th data record that fits the header
KthFitting(e, k) ==
    CHOOSE i \in FittingRows(e) :
        Cardinality({j \in FittingRows(e) : j <= i}) = k

\* the recognized files with a header whose table no other file feeds
AloneInTable(d) ==
    {e \in FilesWithHeader(d) :
        \A o \in FilesWithHeader(d) :
            o # e => Lower(Stem(o.name)) # Lower(Stem(e.name))}

\* C12: after a load every row of every table has as many cells as the
\* table has columns; the table of a file holds exactly the file's data
\* records whose field count is the header's, cell by cell (stripped, never
\* padded or cut) and in file order; and the other records raise nothing:
\* the load ends as the load of the same files without them ends.
C12_RaggedRowsDropped ==
    output # <<>> =>
        /\ \A t \in DOMAIN output[1].store :
              \A i \in 1..Len(output[1].store[t].rows) :
                 Len(output[1].store[t].rows[i]) = Len(output[1].store[t].cols)
        /\ output[1].err = NoError =>
              \A e \in AloneInTable(input) :
                 /\ Len(output[1].store[Stem(e.name)].rows)
                       = Cardinality(FittingRows(e))
                 /\ \A k \in 1..Cardinality(FittingRows(e)) :
                       \A c \in 1..Len(e.records[1]) :
                          output[1].store[Stem(e.name)].rows[k][c]
                             = Strip(e.records[KthFitting(e, k)][c])
        /\ output[1].err
             = LoadDirectory("A", Directory({WithoutRagged(e) : e \in input.entries})).err

\* a file whose records are: header, fitting, too short, too long, another
\* fitting one; its table holds the two fitting records
C12_Witness ==
    /\ LoadReturned
    /\ \E e \in AloneInTable(input) :
          /\ Len(e.records) = 5
          /\ FittingRows(e) = {2, 5}
          /\ Len(e.records[3]) < Len(e.records[1])
          /\ Len(e.records[4]) > Len(e.records[1])
          /\ e.records[2] # e.records[5]
          /\ Len(output[1].store[Stem(e.name)].rows) = 2

\* The cell values by what they are as text: empty or white space only, an
\* integer literal (white space around it allowed), a real number that is
\* not an integer literal, neither.
BlankTexts == {"", " "}

IntegerTexts == {"1", "-2", " 3 ", "1_0", OverlongInteger}

RealTexts == {"4.5", "1e3", "+.5"}

\* the values of the sample that are not blank
Remaining == {input[i] : i \in {j \in 1..Len(input) : input[j] \notin BlankTexts}}

\* C13: blank values apart, the type returned for a sample is INTEGER when
\* some value remains and every remaining value is an integer literal, REAL
\* when not every remaining value is an integer literal but every one is an
\* integer or real literal, and TEXT otherwise, in particular when no value
\* remains; so one value that is not an integer excludes INTEGER and one
\* value that is not a number forces TEXT.
C13_InferredTypeOfSample ==
    output # <<>> =>
        /\ output[1] = "INTEGER"
              <=> (Remaining # {} /\ Remaining \subseteq IntegerTexts)
        /\ output[1] = "REAL"
              <=> (/\ Remaining \subseteq IntegerTexts \cup RealTexts
                   /\ Remaining \cap RealTexts # {})
        /\ output[1] = "TEXT"
              <=> (\/ Remaining = {}
                   \/ ~(Remaining \subseteq IntegerTexts \cup RealTexts))

\* the methods handle has a branch for
RecognizedMethods ==
    {"test_connection", "get_databases", "get_tables", "get_columns",
     "get_schema_snapshot", "get_all_columns_batch",
     "get_all_foreign_keys_batch", "execute_query"}
    \cup EmptyListMethods \cup WriteMethods

\* C14: the response to a request whose method is none of the recognized
\* ones is the method-not-found error (code -32601), whatever directory it
\* names and whatever is cached.  (main copies the id of the line into
\* every response it builds; the violation is in the error returned.)
C14_UnknownMethodNotFound ==
    (request.folder \in Folders /\ request.method \notin RecognizedMethods)
        => /\ response.error
           /\ response.code = MethodNotFound

\* the stores a load of the directory can return, whatever its files are
\* at the time of the load
LoadableStores(folder) ==
    {r.l.store : r \in {x \in Loaded : x.folder = folder /\ x.l.err = NoError}}

\* C15: whatever requests were served since the load, the cached store is
\* still what that load returned: the tables it created, with the rows it
\* retained from the files.  It is read after the requests that are not
\* themselves a query, which find the store the earlier requests left.
C15_StoreUnchangedBetweenLoads ==
    (conn.some /\ request.method # "execute_query")
        => conn.db \in LoadableStores(loaded_folder)

\* the type maps a load of the directory can compute, whatever its files
\* are at the time of the load
LoadableTypes(folder) ==
    {r.l.types : r \in {x \in Loaded : x.folder = folder /\ x.l.err = NoError}}

\* C16: as long as the session's directory is not reloaded, the type map
\* holds the entries its load computed from the sampled rows of the files,
\* whatever requests were served since.
C16_TypeMapKeptUntilReload ==
    conn.some => column_types \in LoadableTypes(loaded_folder)

\* the loads of the directory that return, whatever its files are at the
\* time of the load
LoadsOf(folder) == {r.l : r \in {x \in Loaded : x.folder = folder /\ x.l.err = NoError}}

\* the descriptors list the columns of table t of the load l, in header
\* order, each with the type l inferred for it and the fixed flags
DescribesLoaded(ds, l, t) ==
    /\ Len(ds) = Len(l.store[t].cols)
    /\ \A i \in 1..Len(ds) :
          /\ ds[i].name = l.store[t].cols[i]
          /\ ds[i].data_type = l.types[t][ds[i].name]
          /\ ~ds[i].is_pk
          /\ ds[i].is_nullable
          /\ ~ds[i].is_auto_increment
          /\ ds[i].default_value = None

\* C17: the answer to get_columns for a table of the session lists the
\* header fields of the table in order, each with the type the load of the
\* session's directory inferred for that column of that table, is_pk false,
\* is_nullable true, is_auto_increment false and no default value.  The
\* load is known by the store it returned, while no query has changed it.
C17_ColumnsCarryInferredTypes ==
    (/\ request.method = "get_columns"
     /\ ~response.error
     /\ HasTable(conn.db, request.table))
    => \A l \in LoadsOf(loaded_folder) :
          l.store = conn.db =>
             DescribesLoaded(response.result, l, TableKey(l.store, request.table))

\* the lines main has read so far
ReadSoFar == SubSeq(input, 1, Len(input) - Len(stdin))

\* the positions of the lines read so far that are not blank
Answerable == {i \in 1..Len(ReadSoFar) : ReadSoFar[i].kind # "blank"}

\* the position of the k-th of them
KthAnswerable(k) ==
    CHOOSE i \in Answerable : Cardinality({j \in Answerable : j <= i}) = k

\* C18: the loop stops only when the input has ended, and at every moment
\* the lines printed are one per non-blank line read, in the order read:
\* the parse error with id null for a line that is not valid JSON, and
\* otherwise a result or error with the id of the line.
C18_OneResponsePerLine ==
    /\ ~running => stdin = <<>>
    /\ Len(stdout) = Cardinality(Answerable)
    /\ \A k \in 1..Len(stdout) :
          IF input[KthAnswerable(k)].kind = "malformed"
          THEN /\ stdout[k].id = Absent
               /\ stdout[k].body.error
               /\ stdout[k].body.code = ParseError
          ELSE stdout[k].id = input[KthAnswerable(k)].id

\* the page and page size the answer reports
UsedPage == response.result.pagination.page

UsedPageSize == response.result.pagination.page_size

\* C19: the page and page size an answered query reports are the requested
\* ones when these are at least 1 and 1 when they are 0 or negative; the
\* rows returned are those of the complete result from offset
\* (page-1)*page_size on, for these reported values, so the offset is never
\* negative; and when the offset lies inside the result, at least one row
\* and at most page_size rows are returned.
C19_PageAndSizeClamped ==
    AnsweredSelect =>
        /\ UsedPage = (IF AskedPage < 1 THEN 1 ELSE AskedPage)
        /\ UsedPageSize = (IF AskedPageSize < 1 THEN 1 ELSE AskedPageSize)
        /\ (UsedPage - 1) * UsedPageSize >= 0
        /\ Len(response.result.rows) <= UsedPageSize
        /\ (UsedPage - 1) * UsedPageSize < Len(CompleteResult)
              => Len(response.result.rows) >= 1
        /\ \A i \in 1..Len(response.result.rows) :
              response.result.rows[i]
                 = CompleteResult[(UsedPage - 1) * UsedPageSize + i]

\* page 0 and page_size -1 over the 3 rows of items: the first row alone,
\* reported as page 1 of size 1
C19_Witness ==
    /\ AnsweredSelect
    /\ request.page = Given(0)
    /\ request.page_size = Given(-1)
    /\ Len(CompleteResult) = 3
    /\ response.result.rows = << <<"10">> >>
    /\ UsedPage = 1
    /\ UsedPageSize = 1

====
